---- MODULE Spec2Model ----
(***************************************************************************)
(* i3lock-svg: the unlock indicator (src/unlock_indicator.c).              *)
(*                                                                         *)
(* The state is the file's globals (input_position, unlock_state,          *)
(* pam_state, current_frame), the globals it imports from i3lock.c and     *)
(* xinerama.c (asset flags, geometry), and what the last draw_image put    *)
(* on the pixmap: the SVG sub-layers it rendered and the rectangles it     *)
(* composited.  The key and authentication handlers belong to i3lock.c;    *)
(* they are modelled from the specification of the Lock State Machine      *)
(* (section 4.1).                                                          *)
(***************************************************************************)
EXTENDS Integers, Sequences, FiniteSets, TLC

VARIABLES
    input_position,       \* int input_position                    (l.32)
    unlock_state,         \* unlock_state_t unlock_state           (l.79)
    pam_state,            \* pam_state_t pam_state                 (l.80)
    current_frame,        \* int current_frame = 0                 (l.83)
    anim_layer_count,     \* extern int anim_layer_count           (l.55)
    remove_background,    \* extern bool remove_background         (l.58)
    sequential_animation, \* extern bool sequential_animation      (l.61)
    unlock_indicator,     \* extern bool unlock_indicator          (l.41)
    display,              \* xr_screens/xr_resolutions, last_resolution, screen
    svg_dimensions,       \* rsvg_handle_get_dimensions(svg, ...)  (l.105)
    layers,               \* sub-layers the last draw_image rendered on ctx
    placements,           \* rectangles the last draw_image composited
    fill,                 \* how the last draw_image filled the pixmap
    xcalls,               \* buffer calls of the last redraw_screen, in order
    proc,                 \* "running", "trapped" (SIGFPE) or "unlocked"
    last_op,              \* history: the handler that ran last
    drawn,                \* history: the inputs of the last draw_image and
                          \* the cursor it started from
    anim_run,             \* history: frames of the KEY_ACTIVE renders in a row
                          \* under sequential_animation
    scen,                 \* history: progress through accept, settle, delete
    attempt               \* history: "none", "failed", or "retry" once a key
                          \* was accepted after a failure

state  == <<input_position, unlock_state, pam_state, current_frame>>
asset  == <<anim_layer_count, remove_background, sequential_animation,
            unlock_indicator, display, svg_dimensions>>
output == <<layers, placements, proc, fill, xcalls>>
hist   == <<last_op, drawn, anim_run, scen, attempt>>
vars   == <<state, asset, output, hist>>

(***************************************************************************)
(* Bounds of the model.                                                    *)
(***************************************************************************)
\* largest anim_layer_count an asset is loaded with
MaxAnim == 3
\* largest input_position (the password buffer is finite)
MaxInput == 2
\* rand() returns a value of 0..RandMax
RandMax == 3

(***************************************************************************)
(* unlock_state_t and pam_state_t, in declaration order: draw_image        *)
(* compares unlock_state with >=.                                          *)
(***************************************************************************)
STATE_STARTED == 0
STATE_KEY_PRESSED == 1
STATE_KEY_ACTIVE == 2
STATE_BACKSPACE_ACTIVE == 3
STATE_PAM_IDLE == 0
STATE_PAM_VERIFY == 1
STATE_PAM_WRONG == 2

UnlockStates == {STATE_STARTED, STATE_KEY_PRESSED, STATE_KEY_ACTIVE,
                 STATE_BACKSPACE_ACTIVE}
PamStates == {STATE_PAM_IDLE, STATE_PAM_VERIFY, STATE_PAM_WRONG}

(***************************************************************************)
(* Geometry: the Xinerama regions (xr_resolutions, xr_screens of them),    *)
(* the root window's resolution and the root screen's physical height;     *)
(* with each, whether a background image is set (img) and tiled (tile).    *)
(***************************************************************************)
Rect(x, y, w, h) == [x |-> x, y |-> y, width |-> w, height |-> h]

Displays ==
    { [xr_resolutions |-> << >>,
       last_resolution |-> <<1920, 1080>>,
       img |-> FALSE, tile |-> FALSE,
       height_in_pixels |-> 1080, height_in_millimeters |-> 285],
      [xr_resolutions |-> <<Rect(0, 0, 1920, 1080), Rect(1920, 0, 1080, 1920)>>,
       last_resolution |-> <<3000, 1920>>,
       img |-> TRUE, tile |-> FALSE,
       height_in_pixels |-> 1920, height_in_millimeters |-> 253],
      [xr_resolutions |-> <<Rect(0, 0, 1365, 767)>>,
       last_resolution |-> <<1365, 767>>,
       img |-> TRUE, tile |-> TRUE,
       height_in_pixels |-> 767, height_in_millimeters |-> 135] }

SvgSizes == { [width |-> 200, height |-> 200], [width |-> 601, height |-> 333] }

xr_resolutions == display.xr_resolutions
xr_screens == Len(display.xr_resolutions)
last_resolution == display.last_resolution
img == display.img
tile == display.tile
\* redraw_screen calls draw_image(last_resolution)
resolution == last_resolution

(***************************************************************************)
(* scaling_factor() is dpi / 96.0 with dpi the physical height's dots per  *)
(* inch truncated to int.  The displays above have dpi 96, 192 and 144     *)
(* (none of the quotients is near an integer): the factors 1.0, 2.0 and    *)
(* 1.5 are exact doubles, so ceil(factor * size) is the exact rational     *)
(* ceiling computed here.                                                  *)
(***************************************************************************)
dpi == (display.height_in_pixels * 254) \div (display.height_in_millimeters * 10)

CeilScaled(size) == (dpi * size + 95) \div 96

indicator_x_physical == CeilScaled(svg_dimensions.width)
indicator_y_physical == CeilScaled(svg_dimensions.height)

(***************************************************************************)
(* draw_image, the indicator (l.147-194).                                  *)
(***************************************************************************)
ShowIndicatorIgnoresFlag(us, enabled) == us >= STATE_KEY_PRESSED

ShowIndicator(us, enabled) == us >= STATE_KEY_PRESSED /\ enabled

IsActive(us) == us = STATE_KEY_ACTIVE \/ us = STATE_BACKSPACE_ACTIVE

DrawsStatusNoCheck(us, rb) == TRUE

DrawsStatus(us, rb) == ~IsActive(us) \/ ~rb

StatusLayerSwapped(ps) ==
    CASE ps = STATE_PAM_VERIFY -> "#fail"
      [] ps = STATE_PAM_WRONG -> "#verify"
      [] OTHER -> "#idle"

StatusLayer(ps) ==
    CASE ps = STATE_PAM_VERIFY -> "#verify"
      [] ps = STATE_PAM_WRONG -> "#fail"
      [] OTHER -> "#idle"

AdvanceOffByOne(cf, n) == IF cf + 1 > n THEN 0 ELSE cf + 1

AdvanceClamped(cf, n) == IF cf + 1 >= n THEN cf ELSE cf + 1

\* the advance made once for every screen composited
AdvancePerScreen(cf, n) ==
    LET once(c) == IF c + 1 >= n THEN 0 ELSE c + 1
    IN  IF xr_screens > 1 THEN once(once(cf)) ELSE once(cf)

\* if(++current_frame >= anim_layer_count) current_frame = 0;
Advance(cf, n) == IF cf + 1 >= n THEN 0 ELSE cf + 1

DrawsAnimOnBackspace(us) == us = STATE_BACKSPACE_ACTIVE

\* the branch of l.181: an animation frame, or else "#backspace"
DrawsAnim(us) == us = STATE_KEY_ACTIVE

UsesRandInverted(seq) == seq

UsesRand(seq) == ~seq

\* snprintf(anim_id, sizeof(anim_id), "#anim%02d", current_frame)
Digit == <<"0", "1", "2", "3", "4", "5", "6", "7", "8", "9">>

anim_id(n) == "#anim" \o Digit[((n \div 10) % 10) + 1] \o Digit[(n % 10) + 1]

FixedIds == {"#bg", "#idle", "#verify", "#fail", "#backspace", "#fg"}
StatusIds == {"#idle", "#verify", "#fail"}

(***************************************************************************)
(* rsvg_handle_render_cairo_sub draws the sub-layer with the given id, and *)
(* nothing when the asset has no such id.  The asset has the six fixed     *)
(* layers and the frames anim00 .. anim<anim_layer_count - 1>.             *)
(***************************************************************************)
HasSub(id) ==
    \/ id \in FixedIds
    \/ \E n \in 0..(anim_layer_count - 1) : id = anim_id(n)

Render(ids) == SelectSeq(ids, HasSub)

RequestedStatusLast(us, ps, cf) ==
    <<"#bg">>
    \o (IF IsActive(us)
        THEN (IF DrawsAnim(us) THEN <<anim_id(cf)>> ELSE <<"#backspace">>)
        ELSE << >>)
    \o (IF DrawsStatus(us, remove_background) THEN <<StatusLayer(ps)>> ELSE << >>)
    \o <<"#fg">>

\* the ids draw_image asks for, in order, once the cursor is cf
Requested(us, ps, cf) ==
    <<"#bg">>
    \o (IF DrawsStatus(us, remove_background) THEN <<StatusLayer(ps)>> ELSE << >>)
    \o (IF IsActive(us)
        THEN (IF DrawsAnim(us) THEN <<anim_id(cf)>> ELSE <<"#backspace">>)
        ELSE << >>)
    \o <<"#fg">>

(***************************************************************************)
(* draw_image, the compositing (l.196-214).                                *)
(***************************************************************************)
CenterLeft(origin, extent, size) == origin + (extent \div 2)

\* l.199-200, int arithmetic
Center(origin, extent, size) == origin + ((extent \div 2) - (size \div 2))

\* l.209-210: the difference is taken in uint32_t and stored to an int; for
\* operands below 2^31 the wrapped value converts back to the signed
\* difference
CenterRoot(extent, size) == (extent \div 2) - (size \div 2)

CompositeSkipsLast ==
    IF xr_screens > 0
    THEN [ s \in 1..(xr_screens - 1) |->
             Rect(Center(xr_resolutions[s].x, xr_resolutions[s].width,
                         indicator_x_physical),
                  Center(xr_resolutions[s].y, xr_resolutions[s].height,
                         indicator_y_physical),
                  indicator_x_physical, indicator_y_physical) ]
    ELSE << Rect(CenterRoot(last_resolution[1], indicator_x_physical),
                 CenterRoot(last_resolution[2], indicator_y_physical),
                 indicator_x_physical, indicator_y_physical) >>

Composite ==
    IF xr_screens > 0
    THEN [ s \in 1..xr_screens |->
             Rect(Center(xr_resolutions[s].x, xr_resolutions[s].width,
                         indicator_x_physical),
                  Center(xr_resolutions[s].y, xr_resolutions[s].height,
                         indicator_y_physical),
                  indicator_x_physical, indicator_y_physical) ]
    ELSE << Rect(CenterRoot(last_resolution[1], indicator_x_physical),
                 CenterRoot(last_resolution[2], indicator_y_physical),
                 indicator_x_physical, indicator_y_physical) >>

(***************************************************************************)
(* draw_image, the background (l.121-145): the image painted once, or      *)
(* repeated as a pattern, or else the color.                               *)
(***************************************************************************)
Fill == IF img THEN (IF tile THEN "pattern" ELSE "image") ELSE "color"

(***************************************************************************)
(* The transient buffers: what draw_image creates (l.111-119, 128) and     *)
(* destroys (l.133, 216-219), and what redraw_screen does with the pixmap  *)
(* draw_image returns (l.229, 233).                                        *)
(***************************************************************************)
DrawImageOpen ==
    << <<"create", "bg_pixmap">>, <<"create", "output">>, <<"create", "ctx">>,
       <<"create", "xcb_output">>, <<"create", "xcb_ctx">> >>

FillCalls ==
    IF img /\ tile
    THEN << <<"create", "pattern">>, <<"destroy", "pattern">> >>
    ELSE << >>

DrawImageCloseLeaksCtx ==
    << <<"destroy", "xcb_output">>, <<"destroy", "output">>,
       <<"destroy", "xcb_ctx">> >>

DrawImageClose ==
    << <<"destroy", "xcb_output">>, <<"destroy", "output">>,
       <<"destroy", "ctx">>, <<"destroy", "xcb_ctx">> >>

DrawImageCalls == DrawImageOpen \o FillCalls \o DrawImageClose

RedrawCalls ==
    DrawImageCalls \o << <<"install", "bg_pixmap">>, <<"destroy", "bg_pixmap">> >>

(***************************************************************************)
(* History of the renders.                                                 *)
(***************************************************************************)
NoDraw ==
    [done |-> FALSE, us |-> STATE_STARTED, ps |-> STATE_PAM_IDLE, pos |-> 0,
     cf |-> 0]

\* the last anim_layer_count frames of the run, cf appended
Window(run, cf) ==
    IF anim_layer_count = 0 THEN << >>
    ELSE IF Len(run) >= anim_layer_count THEN Tail(run) \o <<cf>>
    ELSE Append(run, cf)

\* kept under sequential_animation: a render in BACKSPACE_ACTIVE ends a run;
\* one in STARTED or KEY_PRESSED (what a settle between two keys draws) does
\* not
RunAfter(us, cf) ==
    IF ~sequential_animation THEN << >>
    ELSE IF us = STATE_KEY_ACTIVE THEN Window(anim_run, cf)
    ELSE IF us = STATE_BACKSPACE_ACTIVE THEN << >>
    ELSE anim_run

(***************************************************************************)
(* draw_image (l.101-221), called with the handler's new unlock_state and  *)
(* pam_state.  rand() % anim_layer_count with anim_layer_count == 0 is     *)
(* undefined: the process traps (SIGFPE), or the remainder is any value.   *)
(***************************************************************************)
Painted ==
    /\ fill' = Fill
    /\ placements' = Composite
    /\ xcalls' = RedrawCalls
    /\ proc' = proc

Finish(us, ps, cf) ==
    /\ current_frame' = cf
    /\ layers' = Render(Requested(us, ps, cf))
    /\ Painted
    /\ drawn' = [done |-> TRUE, us |-> us, ps |-> ps, pos |-> input_position',
                 cf |-> current_frame]
    /\ anim_run' = RunAfter(us, cf)

Trap(cf) ==
    /\ current_frame' = cf
    /\ proc' = "trapped"
    /\ xcalls' = DrawImageOpen \o FillCalls
    /\ UNCHANGED <<layers, placements, fill, drawn, anim_run>>

DrawImage(us, ps) ==
        IF ~ShowIndicator(us, unlock_indicator)
        THEN /\ current_frame' = current_frame
             /\ layers' = << >>
             /\ Painted
             /\ drawn' = [done |-> TRUE, us |-> us, ps |-> ps,
                          pos |-> input_position', cf |-> current_frame]
             /\ anim_run' = anim_run
        ELSE IF ~IsActive(us)
        THEN Finish(us, ps, current_frame)
        ELSE IF DrawsAnim(us) /\ UsesRand(sequential_animation)
        THEN IF anim_layer_count = 0
             THEN \/ Trap(Advance(current_frame, anim_layer_count))
                  \/ \E r \in 0..RandMax : Finish(us, ps, r)
             ELSE \E r \in 0..RandMax : Finish(us, ps, r % anim_layer_count)
        ELSE Finish(us, ps, Advance(current_frame, anim_layer_count))

draw_image == DrawImage(unlock_state', pam_state')

(***************************************************************************)
(* redraw_screen (l.227-235): draw_image on the current state.             *)
(***************************************************************************)
\* a redraw that demotes the active state once it is drawn
redraw_screen_settles ==
    /\ proc = "running"
    /\ unlock_state' = (IF IsActive(unlock_state) THEN STATE_KEY_PRESSED
                        ELSE unlock_state)
    /\ UNCHANGED <<input_position, pam_state>>
    /\ DrawImage(unlock_state, pam_state)
    /\ last_op' = "redraw_screen"
    /\ scen' = 0
    /\ UNCHANGED <<asset, attempt>>

redraw_screen ==
    /\ proc = "running"
    /\ UNCHANGED <<input_position, unlock_state, pam_state>>
    /\ draw_image
    /\ last_op' = "redraw_screen"
    /\ scen' = 0
    /\ UNCHANGED <<asset, attempt>>

(***************************************************************************)
(* clear_indicator (l.242-247).                                            *)
(***************************************************************************)
SettledAlwaysPressed(pos) == STATE_KEY_PRESSED

SettledSwapped(pos) == IF pos = 0 THEN STATE_KEY_PRESSED ELSE STATE_STARTED

Settled(pos) == IF pos = 0 THEN STATE_STARTED ELSE STATE_KEY_PRESSED

\* the redraw issued before unlock_state is updated
clear_indicator_draws_first ==
    /\ proc = "running"
    /\ UNCHANGED <<input_position, pam_state>>
    /\ unlock_state' = Settled(input_position)
    /\ DrawImage(unlock_state, pam_state)
    /\ last_op' = "clear_indicator"
    /\ scen' = IF scen = 1 THEN 2 ELSE 0
    /\ UNCHANGED <<asset, attempt>>

clear_indicator ==
    /\ proc = "running"
    /\ unlock_state' = Settled(input_position)
    /\ UNCHANGED <<input_position, pam_state>>
    /\ draw_image
    /\ last_op' = "clear_indicator"
    /\ scen' = IF scen = 1 THEN 2 ELSE 0
    /\ UNCHANGED <<asset, attempt>>

(***************************************************************************)
(* The Lock State Machine's operations (specification, section 4.1).       *)
(***************************************************************************)
on_key_accepted ==
    /\ proc = "running"
    /\ input_position < MaxInput
    /\ input_position' = input_position + 1
    /\ unlock_state' = STATE_KEY_ACTIVE
    /\ pam_state' = IF pam_state = STATE_PAM_WRONG THEN STATE_PAM_IDLE
                    ELSE pam_state
    /\ draw_image
    /\ last_op' = "on_key_accepted"
    /\ scen' = IF unlock_state = STATE_STARTED /\ input_position = 0
               THEN 1 ELSE 0
    /\ attempt' = IF attempt = "failed" THEN "retry" ELSE attempt
    /\ UNCHANGED asset

on_key_deleted ==
    /\ proc = "running"
    /\ input_position' = IF input_position > 0 THEN input_position - 1 ELSE 0
    /\ unlock_state' = IF input_position' > 0 THEN STATE_BACKSPACE_ACTIVE
                       ELSE STATE_STARTED
    /\ UNCHANGED pam_state
    /\ draw_image
    /\ last_op' = "on_key_deleted"
    /\ scen' = IF scen = 2 THEN 3 ELSE 0
    /\ UNCHANGED <<asset, attempt>>

on_auth_result(result) ==
    /\ proc = "running"
    /\ \/ /\ result = "in_progress"
          /\ pam_state # STATE_PAM_VERIFY
          /\ pam_state' = STATE_PAM_VERIFY
          /\ UNCHANGED <<input_position, unlock_state>>
          /\ draw_image
          /\ UNCHANGED attempt
       \/ /\ result = "failure"
          /\ pam_state = STATE_PAM_VERIFY
          /\ pam_state' = STATE_PAM_WRONG
          /\ UNCHANGED <<input_position, unlock_state>>
          /\ draw_image
          /\ attempt' = "failed"
       \/ /\ result = "success"
          /\ pam_state = STATE_PAM_VERIFY
          /\ proc' = "unlocked"
          /\ UNCHANGED <<state, layers, placements, fill, xcalls, drawn,
                         anim_run, attempt>>
    /\ last_op' = "on_auth_" \o result
    /\ scen' = 0
    /\ UNCHANGED asset

clear_buffer ==
    /\ proc = "running"
    /\ input_position' = 0
    /\ unlock_state' = STATE_STARTED
    /\ last_op' = "clear_buffer"
    /\ scen' = 0
    /\ UNCHANGED <<pam_state, current_frame, asset, output, drawn, anim_run,
                   attempt>>

(***************************************************************************)
(* The program.                                                            *)
(***************************************************************************)
Init ==
    /\ input_position = 0
    /\ unlock_state = STATE_STARTED
    /\ pam_state = STATE_PAM_IDLE
    /\ current_frame = 0
    /\ anim_layer_count \in 0..MaxAnim
    /\ remove_background \in BOOLEAN
    /\ sequential_animation \in BOOLEAN
    /\ unlock_indicator \in BOOLEAN
    /\ display \in Displays
    /\ svg_dimensions \in SvgSizes
    /\ layers = << >>
    /\ placements = << >>
    /\ fill = "none"
    /\ xcalls = << >>
    /\ proc = "running"
    /\ last_op = "init"
    /\ drawn = NoDraw
    /\ anim_run = << >>
    /\ scen = 0
    /\ attempt = "none"

Next ==
    \/ on_key_accepted
    \/ on_key_deleted
    \/ clear_indicator
    \/ \E result \in {"in_progress", "failure", "success"} : on_auth_result(result)
    \/ clear_buffer
    \/ redraw_screen

Spec == Init /\ [][Next]_vars

TypeOK ==
    /\ unlock_state \in UnlockStates
    /\ pam_state \in PamStates
    /\ input_position \in 0..MaxInput
    /\ proc \in {"running", "trapped", "unlocked"}

(***************************************************************************)
(* Properties.                                                             *)
(***************************************************************************)
Range(s) == { s[i] : i \in DOMAIN s }

\* the last draw_image drew an indicator
Shown == drawn.done /\ ShowIndicator(drawn.us, unlock_indicator)

StatusDrawn == { i \in DOMAIN layers : layers[i] \in StatusIds }
AnimDrawn == { i \in DOMAIN layers : layers[i] \notin FixedIds }

C2_StatusLayer ==
    Shown =>
        /\ (remove_background /\ drawn.us = STATE_KEY_ACTIVE) => StatusDrawn = {}
        /\ ~remove_background => Cardinality(StatusDrawn) = 1

C2_Witness ==
    /\ Shown
    /\ remove_background
    /\ drawn.us = STATE_KEY_ACTIVE
    /\ layers[1] = "#bg"
    /\ AnimDrawn # {}

\* C3: with anim_layer_count = 0 a KEY_ACTIVE render completes without a
\* fault and renders no animation layer, under either policy.
C3_ZeroFramesNoFault ==
    anim_layer_count = 0 => (proc # "trapped" /\ AnimDrawn = {})

\* C4: input_position >= 0 always, and after clear_indicator unlock_state is
\* STARTED iff input_position = 0, and KEY_PRESSED otherwise.
C4_Settle ==
    /\ input_position >= 0
    /\ last_op = "clear_indicator" =>
           /\ unlock_state = STATE_STARTED <=> input_position = 0
           /\ input_position # 0 => unlock_state = STATE_KEY_PRESSED

C4_Witness ==
    /\ last_op = "clear_indicator"
    /\ input_position > 0
    /\ unlock_state = STATE_KEY_PRESSED

\* the state is what the last draw_image was called with
Unchanged ==
    /\ drawn.done
    /\ drawn.us = unlock_state
    /\ drawn.ps = pam_state
    /\ drawn.pos = input_position

\* C5 as stated: a redraw_screen with the state unchanged since the last
\* render draws the same layers at the same places, in every unlock_state.
C5_RenderIdempotent ==
    [][(last_op' = "redraw_screen" /\ Unchanged)
         => (layers' = layers /\ placements' = placements)]_vars

\* no frame is drawn, or there is one frame only
NoFrameChoice ==
    \/ unlock_state # STATE_KEY_ACTIVE
    \/ ~unlock_indicator
    \/ anim_layer_count = 1
    \/ (anim_layer_count = 0 /\ sequential_animation)

\* C5 amended: the same, for the states in which no animation frame is
\* chosen: unlock_state other than KEY_ACTIVE, the indicator disabled, or
\* anim_layer_count = 1 (or 0 under the sequential policy).
C5_RenderIdempotentNoFrame ==
    [][(last_op' = "redraw_screen" /\ Unchanged /\ NoFrameChoice)
         => (layers' = layers /\ placements' = placements)]_vars

\* a second render in BACKSPACE_ACTIVE: the cursor moved, the output did not
C5_Witness ==
    /\ last_op = "redraw_screen"
    /\ Unchanged
    /\ unlock_state = STATE_BACKSPACE_ACTIVE
    /\ unlock_indicator
    /\ anim_layer_count >= 2
    /\ "#backspace" \in Range(layers)

Fits(r) == indicator_x_physical <= r.width /\ indicator_y_physical <= r.height

Inside(p, r) ==
    /\ r.x <= p.x
    /\ p.x + p.width <= r.x + r.width
    /\ r.y <= p.y
    /\ p.y + p.height <= r.y + r.height

Centered(p, r) ==
    /\ p.x = r.x + (r.width \div 2) - (indicator_x_physical \div 2)
    /\ p.y = r.y + (r.height \div 2) - (indicator_y_physical \div 2)
    /\ p.width = indicator_x_physical
    /\ p.height = indicator_y_physical

\* C6 as stated: the indicator is composited at the centre of every region
\* and its rectangle never extends outside the region.
C6_CenteredInside ==
    (xr_screens > 0 /\ drawn.done) =>
        \A s \in 1..xr_screens :
            /\ Centered(placements[s], xr_resolutions[s])
            /\ Inside(placements[s], xr_resolutions[s])

\* C6 amended: the indicator is composited at the centre of every region,
\* and its rectangle is inside the region when the indicator is no wider and
\* no higher than the region.
C6_CenteredInsideWhenFits ==
    (xr_screens > 0 /\ drawn.done) =>
        \A s \in 1..xr_screens :
            /\ Centered(placements[s], xr_resolutions[s])
            /\ Fits(xr_resolutions[s]) =>
                   Inside(placements[s], xr_resolutions[s])

C6_Witness ==
    /\ xr_screens = 2
    /\ drawn.done
    /\ Fits(xr_resolutions[1])
    /\ Fits(xr_resolutions[2])
    /\ placements[2].x > xr_resolutions[2].x

\* C7: with anim_layer_count >= 1 the cursor is in [0, anim_layer_count).
C7_CursorInRange ==
    anim_layer_count >= 1 => current_frame \in 0..(anim_layer_count - 1)

\* the cursor at the last frame, after a KEY_ACTIVE render
C7_Witness ==
    /\ anim_layer_count >= 2
    /\ current_frame = anim_layer_count - 1
    /\ Shown
    /\ drawn.us = STATE_KEY_ACTIVE

\* C8: under the randomized policy with anim_layer_count = N >= 1, whatever
\* the cursor, a KEY_ACTIVE render can choose every index of [0, N).
C8_EveryFramePossible ==
    (~sequential_animation /\ anim_layer_count >= 1 /\ unlock_indicator
       /\ proc = "running") =>
        /\ unlock_state = STATE_KEY_ACTIVE =>
               \A k \in 0..(anim_layer_count - 1) :
                   ENABLED (redraw_screen /\ current_frame' = k)
        /\ ENABLED on_key_accepted =>
               \A k \in 0..(anim_layer_count - 1) :
                   ENABLED (on_key_accepted /\ current_frame' = k)

\* the same frame twice in a row: the advance by one was discarded
C8_Witness ==
    /\ ~sequential_animation
    /\ anim_layer_count >= 2
    /\ Shown
    /\ drawn.us = STATE_KEY_ACTIVE
    /\ drawn.cf = current_frame
    /\ layers[Len(layers) - 1] = anim_id(current_frame)

\* C9: on_key_deleted decrements input_position, not below 0, and leaves
\* BACKSPACE_ACTIVE if input_position > 0 and STARTED if it is 0; from
\* STARTED/0, key accepted gives KEY_ACTIVE/1, settle KEY_PRESSED, key
\* deleted STARTED/0.
C9_KeyDeleted ==
    [][/\ last_op' = "on_key_deleted" =>
            /\ input_position' = (IF input_position > 0
                                  THEN input_position - 1 ELSE 0)
            /\ input_position' > 0 => unlock_state' = STATE_BACKSPACE_ACTIVE
            /\ input_position' = 0 => unlock_state' = STATE_STARTED
       /\ scen' = 1 => (unlock_state' = STATE_KEY_ACTIVE /\ input_position' = 1)
       /\ scen' = 2 => (unlock_state' = STATE_KEY_PRESSED /\ input_position' = 1)
       /\ scen' = 3 => (unlock_state' = STATE_STARTED /\ input_position' = 0)
      ]_vars

C9_Witness ==
    /\ scen = 3
    /\ last_op = "on_key_deleted"
    /\ unlock_state = STATE_STARTED

\* C10: a failure leaves pam_state WRONG, the next accepted key resets it to
\* IDLE, and no render after that key shows the fail layer (until the next
\* failure).  A draw_image that traps renders nothing: layers is then still
\* what the render before the key drew.
C10_FailCleared ==
    [][/\ last_op' = "on_auth_failure" => pam_state' = STATE_PAM_WRONG
       /\ (last_op' = "on_key_accepted" /\ pam_state = STATE_PAM_WRONG) =>
              pam_state' = STATE_PAM_IDLE
       /\ attempt' # "failed" =>
              /\ pam_state' # STATE_PAM_WRONG
              /\ proc' # "trapped" => "#fail" \notin Range(layers')
      ]_vars

\* a settle after the key that followed a failure draws the idle layer
C10_Witness ==
    /\ attempt = "retry"
    /\ last_op = "clear_indicator"
    /\ unlock_indicator
    /\ pam_state = STATE_PAM_IDLE
    /\ "#idle" \in Range(layers)

\* a handler that calls redraw_screen ran
RenderStep == last_op \notin {"init", "clear_buffer", "on_auth_success"}

\* C11 as stated: a render in STARTED, KEY_PRESSED or BACKSPACE_ACTIVE leaves
\* current_frame unchanged (only a KEY_ACTIVE render moves the cursor), so a
\* backspace between two keys does not make the animation skip a frame.
\* Stated for assets with at least one frame.
C11_CursorOnlyOnKeyActive ==
    [][(RenderStep' /\ unlock_state' # STATE_KEY_ACTIVE
          /\ anim_layer_count >= 1)
         => current_frame' = current_frame]_vars

RefStatus(ps) ==
    IF ps = STATE_PAM_VERIFY THEN "#verify"
    ELSE IF ps = STATE_PAM_WRONG THEN "#fail"
    ELSE "#idle"

\* the reference mapping of (unlock_state, pam_state, remove_background)
Reference(us, ps, frame) ==
    <<"#bg">>
    \o (IF remove_background /\ us \in {STATE_KEY_ACTIVE, STATE_BACKSPACE_ACTIVE}
        THEN << >> ELSE <<RefStatus(ps)>>)
    \o (CASE us = STATE_KEY_ACTIVE -> frame
          [] us = STATE_BACKSPACE_ACTIVE -> <<"#backspace">>
          [] OTHER -> << >>)
    \o <<"#fg">>

NoLayerTwice ==
    /\ \A i, j \in DOMAIN layers : layers[i] = layers[j] => i = j
    /\ Cardinality(StatusDrawn) <= 1
    /\ ~(AnimDrawn # {} /\ "#backspace" \in Range(layers))

\* C12 as stated: when the indicator is shown the layers rendered are bg, the
\* status layer unless suppressed, the activity layer (anim<NN> of the
\* cursor in KEY_ACTIVE, backspace in BACKSPACE_ACTIVE, none in KEY_PRESSED)
\* and fg, in this order, none of them twice.  Stated for the renders whose
\* frame index is defined (not rand() modulo an anim_layer_count of 0).
C12_LayerList ==
    (Shown /\ (anim_layer_count = 0 => sequential_animation)) =>
        /\ layers = Reference(drawn.us, drawn.ps, <<anim_id(current_frame)>>)
        /\ NoLayerTwice

\* C12 amended: the same, the activity layer of KEY_ACTIVE being anim<NN> of
\* the cursor when anim_layer_count >= 1 and no layer when it is 0.
C12_LayerListOfAsset ==
    Shown =>
        /\ layers = Reference(drawn.us, drawn.ps,
                              IF anim_layer_count >= 1
                              THEN <<anim_id(current_frame)>> ELSE << >>)
        /\ NoLayerTwice

C12_Witness ==
    /\ Shown
    /\ drawn.us = STATE_KEY_ACTIVE
    /\ drawn.ps = STATE_PAM_VERIFY
    /\ ~remove_background
    /\ current_frame = 2
    /\ layers = <<"#bg", "#verify", "#anim02", "#fg">>

Regions == IF xr_screens > 0 THEN xr_screens ELSE 1

\* C13: with the indicator disabled, or in STARTED, a render draws none of
\* the layers and leaves the cursor alone, and still fills the background
\* and composites the (empty) indicator once per region.
C13_EmptyIndicator ==
    [][(RenderStep' /\ (~unlock_indicator \/ unlock_state' = STATE_STARTED))
         => /\ layers' = << >>
            /\ current_frame' = current_frame
            /\ fill' \in {"color", "image", "pattern"}
            /\ Len(placements') = Regions
            /\ proc' = "running"]_vars

\* a key render with the indicator disabled
C13_Witness ==
    /\ ~unlock_indicator
    /\ drawn.done
    /\ drawn.us = STATE_KEY_ACTIVE
    /\ layers = << >>
    /\ fill = "image"
    /\ Len(placements) = 2

\* C14: a redraw, completed or not, leaves unlock_state, pam_state and
\* input_position as they were.
C14_RenderKeepsState ==
    [][last_op' = "redraw_screen"
         => UNCHANGED <<unlock_state, pam_state, input_position>>]_vars

\* a redraw that moved the cursor and nothing of the logical state
C14_Witness ==
    /\ last_op = "redraw_screen"
    /\ unlock_state = STATE_KEY_ACTIVE
    /\ pam_state = STATE_PAM_WRONG
    /\ input_position = 1
    /\ Unchanged
    /\ current_frame # drawn.cf

\* C15: a render composites the indicator once per region, in the regions'
\* order, and with no region once, centered in the resolution handed to it.
C15_OncePerRegion ==
    drawn.done =>
        IF xr_screens > 0
        THEN /\ Len(placements) = xr_screens
             /\ \A s \in 1..xr_screens :
                    Centered(placements[s], xr_resolutions[s])
        ELSE placements =
               << Rect((resolution[1] \div 2) - (indicator_x_physical \div 2),
                       (resolution[2] \div 2) - (indicator_y_physical \div 2),
                       indicator_x_physical, indicator_y_physical) >>

C15_Witness ==
    /\ drawn.done
    /\ xr_screens = 0
    /\ indicator_x_physical = 601
    /\ placements = << Rect(660, 374, 601, 333) >>

\* C16: clear_indicator sets unlock_state (KEY_PRESSED, or STARTED when
\* input_position is 0, whatever it was) before it redraws: the frame it
\* draws has no animation frame and no backspace layer, and the cursor stays.
C16_SettleFrame ==
    [][last_op' = "clear_indicator"
         => /\ unlock_state' = (IF input_position = 0 THEN STATE_STARTED
                                ELSE STATE_KEY_PRESSED)
            /\ AnimDrawn' = {}
            /\ "#backspace" \notin Range(layers')
            /\ current_frame' = current_frame]_vars

\* a settle after key renders that moved the cursor
C16_Witness ==
    /\ last_op = "clear_indicator"
    /\ unlock_state = STATE_KEY_PRESSED
    /\ unlock_indicator
    /\ current_frame = 2
    /\ layers = <<"#bg", "#idle", "#fg">>

\* C17: one render moves the cursor by at most one frame, however many
\* regions it composites, and draws at most one animation frame, which all
\* the regions show.
C17_OneFramePerRender ==
    [][(RenderStep' /\ sequential_animation /\ anim_layer_count >= 1)
         => /\ current_frame' \in {current_frame,
                                   (current_frame + 1) % anim_layer_count}
            /\ Cardinality(AnimDrawn') <= 1
            /\ Len(placements') = Regions]_vars

\* a key render on two regions that moved the cursor by one
C17_Witness ==
    /\ xr_screens = 2
    /\ sequential_animation
    /\ anim_layer_count >= 3
    /\ Shown
    /\ drawn.us = STATE_KEY_ACTIVE
    /\ current_frame = drawn.cf + 1
    /\ Len(placements) = 2
    /\ AnimDrawn # {}

Calls(op, buf) == { i \in DOMAIN xcalls : xcalls[i] = <<op, buf>> }

Buffers == { xcalls[i][2] : i \in DOMAIN xcalls }

LiveBuffers ==
    { b \in Buffers :
        Cardinality(Calls("create", b)) > Cardinality(Calls("destroy", b)) }

\* created once, then destroyed once
OnceEach(b) ==
    /\ Cardinality(Calls("create", b)) = 1
    /\ Cardinality(Calls("destroy", b)) = 1
    /\ \A i \in Calls("create", b), j \in Calls("destroy", b) : i < j

\* C18: a redraw_screen that returns has created one pixmap, installed it
\* before freeing it and freed it once; its draw_image destroyed both
\* surfaces and both contexts before returning; no buffer is left alive.
C18_NoLeak ==
    (drawn.done /\ proc # "trapped") =>
        /\ \A b \in {"bg_pixmap", "output", "ctx", "xcb_output", "xcb_ctx"} :
               OnceEach(b)
        /\ Cardinality(Calls("install", "bg_pixmap")) = 1
        /\ \A i \in Calls("install", "bg_pixmap") :
               /\ \A j \in Calls("destroy", "bg_pixmap") : i < j
               /\ \A b \in {"output", "ctx", "xcb_output", "xcb_ctx"} :
                      \A j \in Calls("destroy", b) : j < i
        /\ LiveBuffers = {}

\* a redraw with a tiled background image: the pattern is released as well
C18_Witness ==
    /\ last_op = "redraw_screen"
    /\ proc = "running"
    /\ drawn.done
    /\ Calls("create", "pattern") # {}
    /\ LiveBuffers = {}

====
